---- MODULE Spec2Model ----
(***************************************************************************)
(* Build orchestration of avocado-mini-server: the task records kept by    *)
(* BuildTasksService, the Bull queue "build" it feeds, and the             *)
(* BuildProcessor that runs the pipeline of BuildService for each job.     *)
(*                                                                         *)
(* Every await of the services is one step: a Prisma call is one atomic    *)
(* read or write of the record store and a Bull call is one atomic queue   *)
(* command, so API calls and workers interleave between awaits.            *)
(***************************************************************************)
EXTENDS Integers, Sequences, FiniteSets, TLC

\* ---------------------------------------------------------------- bounds
\* task records that can be created in one behaviour
MaxTasks == 2
\* jobs that can be alive (waiting, active or delayed) at the same time
MaxJobs == 2
\* API calls (create / retry / cancel) in flight together, and processes
\* attached to the queue (each runs @Process at concurrency 1), in the
\* specifications of one task's lifecycle
NumCallers == 1
NumWorkers == 1
\* the same two, in the specifications about overlapping calls (SpecOverlap)
\* and about a pool of workers (SpecPool)
OverlapCallers == 2
PoolWorkers == 2
\* the clock stops after this many ticks
MaxTicks == 2
\* a day of the clock in milliseconds, scaled down from 86400000 so that
\* the retention period fits the integers of the checker
DayMs == 1000
\* handleGitEvent calls in one behaviour
MaxRequests == 1
\* submissions of a build through the controller in one behaviour
MaxSubmits == 2
\* clients that connect to the gateway
NumSockets == 2
\* rows the notification table can hold
MaxNotifications == 5
\* getConfig / setConfig / deleteConfig calls in flight together
NumConfigCallers == 2
\* appendLog calls in flight together, and lines appended in one behaviour
NumAppenders == 2
MaxLines == 3
\* the ceiling of the queue in the specification of the admission check
\* (SpecCeiling): maxQueueSize scaled down so that the queue can fill
QueueCeiling == 1
\* the value of MAX_CONCURRENT_BUILDS (build.maxConcurrentBuilds, default 3)
\* in the specification of a fleet of processes (SpecFleet)
ConfiguredBuilds == 1

TaskIds == 1..MaxTasks
Appenders == 1..NumAppenders
JobIds == 1..MaxJobs
AllCallers == 1..(IF NumCallers > OverlapCallers THEN NumCallers ELSE OverlapCallers)
AllWorkers == 1..(IF NumWorkers > PoolWorkers THEN NumWorkers ELSE PoolWorkers)
Callers == 1..NumCallers
Workers == 1..NumWorkers

\* ------------------------------------------------------ program constants
\* create(): attempts of a job added by create
CreateAttempts == 3
\* retry(): attempts of a job added by retry
RetryAttempts == 1
\* retry(): task.retryCount >= 3 is rejected
MaxRetry == 3
\* create(): maxQueueSize
maxQueueSize == 200
\* one clock tick, in milliseconds
TickMs == 500
\* cleanupExpiredTasks: expiredDate.getDate() - 30
RetentionDays == 30

BuildTypes == {"UPLOAD", "PREVIEW"}
TaskStatus == {"PENDING", "RUNNING", "SUCCESS", "FAILED", "CANCELLED"}

\* a nullable column: <<>> is null, <<v>> holds v
Null == <<>>
Some(v) == <<v>>
IsSet(x) == x # Null
Val(x) == x[1]

\* BuildService.build (the variant with the gateway): the progress values
\* it reports through onProgress, in order
Milestones == <<0, 10, 20, 30, 40, 60, 80, 90, 100>>
\* index of the first milestone that follows a stage which can throw
\* (fs.ensureDir after the second milestone)
FirstStage == 3

\* BuildService.build: the stages between the milestones, in order; the
\* stage that runs before milestone k is Stages[k - FirstStage + 1]
Stages == <<"ensureDir", "cloneRepository", "installDependencies",
            "buildNativeMiniprogram", "buildProject", "uploadOrPreview", "remove">>
\* stage 7 of the pipeline, fs.remove(taskDir), the workspace cleanup
CleanupStage == 7
\* error.message of the errors that stages and fs.remove throw
Messages == {"command failed", "permission denied"}

VARIABLES
    task,      \* TaskIds -> record (exists = FALSE before creation)
    job,       \* JobIds -> queue job (state "none" when the slot is free)
    waitq,     \* the wait list of the queue: job ids, head is taken next
    call,      \* Callers -> the API call in flight
    wk,        \* Workers -> the job being processed and the position in it
    now,       \* wall clock, milliseconds
    buildLog,  \* TaskIds -> the buildLog column: the lines appended, in order
    ap,        \* Appenders -> the appendLog call in flight
    issued,    \* the task of each line handed to appendLog so far, in order
    app,       \* the miniprogram and its config, as findOne returns them
    webhook,   \* the webhook configured for the miniprogram
    req,       \* the handleGitEvent call in flight
    gitop,     \* the getRepositoryBranches call in flight
    sub,       \* the submission of a build in flight, from the controller on
    sock,      \* Sockets -> the connection of a client to the gateway
    wire,      \* the events the gateway last put on the wire for a task room
    notif,     \* the notification table
    rn,        \* the retryFailedNotifications call in flight
    configDb,  \* the system_config row of the key
    configCache, \* the redis entry of the key
    cc         \* ConfigCallers -> the getConfig / setConfig / deleteConfig call in flight

\* the build orchestration, and the state of the other operations
core == <<task, job, waitq, call, wk, now>>
logVars == <<buildLog, ap, issued>>
hookVars == <<app, webhook, req>>
gitVars == <<gitop>>
subVars == <<sub>>
gwVars == <<sock, wire>>
noteVars == <<notif, rn>>
cfgVars == <<configDb, configCache, cc>>
sideVars == <<subVars, gwVars, noteVars, cfgVars>>
aux == <<logVars, hookVars, gitVars, sideVars>>
vars == <<core, aux>>

NoTask == [exists |-> FALSE, type |-> "UPLOAD", status |-> "PENDING",
           createTime |-> 0, retryCount |-> 0, progress |-> 0, startTime |-> Null,
           endTime |-> Null, duration |-> Null, errorMessage |-> Null]

NoJob == [state |-> "none", taskId |-> 0, attempts |-> 0, attemptsMade |-> 0]

IdleCall == [op |-> "idle", pc |-> "idle", tid |-> 0, type |-> "none",
             status |-> "none", rc |-> 0, jid |-> 0, res |-> "none"]

IdleWorker == [pc |-> "idle", jid |-> 0, k |-> 0, out |-> "none",
               endTime |-> Null, startTime |-> Null,
               failed |-> 0, err |-> "none"]

IdleAppend == [pc |-> "idle", tid |-> 0, line |-> 0, currentLog |-> <<>>]

InitCore ==
    /\ task = [t \in TaskIds |-> NoTask]
    /\ job = [j \in JobIds |-> NoJob]
    /\ waitq = <<>>
    /\ call = [c \in AllCallers |-> IdleCall]
    /\ wk = [w \in AllWorkers |-> IdleWorker]
    /\ now = 0

InitLog ==
    /\ buildLog = [t \in TaskIds |-> <<>>]
    /\ ap = [a \in Appenders |-> IdleAppend]
    /\ issued = <<>>

\* ------------------------------------------ webhook events: the inputs
Branches == {"master", "develop"}
\* the x-event-type header, as the endpoints of the controller set it
RawEvents == {"push", "pull_request", "Push Hook", "Merge Request Hook"}
\* the x-git-provider header
Providers == {"github", "gitlab", "unknown"}
\* the fields the payload has: those of a push (repository, ref, commits,
\* pusher) or those of a pull request
Shapes == {"push", "pull_request"}
\* the keys a sender can sign with or send as a token
Keys == {"k1", "k2"}

NoEvent == [eventType |-> "none", branch |-> "none", merged |-> FALSE]

IdleReq == [pc |-> "idle", n |-> 0, provider |-> "none", raw |-> "none", shape |-> "none",
            branch |-> "none", merged |-> FALSE, hubSig |-> "", token |-> "",
            event |-> NoEvent, version |-> 0,
            triggered |-> FALSE, taskId |-> 0, message |-> "", error |-> "none"]

\* the miniprograms the events are for: without a config, or with autoBuild
\* and gitBranch set or not
AppConfigs ==
    {[config |-> FALSE, autoBuild |-> FALSE, gitBranch |-> "", version |-> 0]} \cup
    {[config |-> TRUE, autoBuild |-> a, gitBranch |-> b, version |-> 0] :
        a \in BOOLEAN, b \in {"", "develop"}}

WebhookConfigs ==
    {[status |-> st, events |-> ev, secret |-> k, lastTrigger |-> Null] :
        st \in {"ACTIVE", "INACTIVE"},
        ev \in {{"push"}, {"push", "pull_request"}},
        k \in {"", "k1"}}

\* a miniprogram set up for automatic builds of develop, with a webhook
\* that has a secret
InitHookDefault ==
    /\ app = [config |-> TRUE, autoBuild |-> TRUE, gitBranch |-> "develop", version |-> 0]
    /\ webhook = [status |-> "ACTIVE", events |-> {"push", "pull_request"},
                  secret |-> "k1", lastTrigger |-> Null]
    /\ req = IdleReq

\* any miniprogram and webhook configuration
InitHook ==
    /\ app \in AppConfigs
    /\ webhook \in WebhookConfigs
    /\ req = IdleReq

\* ---------------------------------------------- getRepositoryBranches
AuthTypes == {"HTTPS", "SSH", "TOKEN"}
\* what the remote answers to git ls-remote
RemoteAnswers == {"ok", "Authentication failed", "not found", "timeout"}

NoCredential == [authType |-> "HTTPS", username |-> FALSE, decryptedPassword |-> FALSE,
                 decryptedSshKey |-> FALSE, decryptedToken |-> FALSE]

\* the credentials getDecryptedCredential can return: each secret present
\* or not
Credentials ==
    {[authType |-> a, username |-> u, decryptedPassword |-> p,
      decryptedSshKey |-> k, decryptedToken |-> t] :
        a \in AuthTypes, u \in BOOLEAN, p \in BOOLEAN, k \in BOOLEAN, t \in BOOLEAN}

\* a GitOperationException: its type and its message, as the parts the
\* message is made of
NoError == [type |-> "none", message |-> <<>>]
GitOperationException(type, message) == [type |-> type, message |-> message]

IdleGit == [pc |-> "idle", urlOk |-> TRUE, isValid |-> TRUE, remote |-> "ok",
            credential |-> NoCredential, ops |-> <<>>, workDir |-> FALSE,
            keyFile |-> FALSE, thrown |-> NoError, success |-> FALSE,
            error |-> NoError]

InitGit == gitop = IdleGit

\* ------------------------------------------- the submission of a build
\* the credential the build config of the app points to: none, or one of
\* an auth type
CredentialKinds == {"none", "HTTPS", "TOKEN", "SSH"}

IdleSub == [pc |-> "idle", n |-> 0, appExists |-> TRUE, authorized |-> TRUE,
            gitUrl |-> TRUE, authType |-> "none", secret |-> TRUE,
            type |-> "none", res |-> "none", tid |-> 0]

\* ---------------------------------------------------------- the gateway
Sockets == 1..NumSockets
\* the token of the handshake: none, one that jwtService.verify rejects,
\* one whose payload.sub is no user, or one of a user
Tokens == {"none", "invalid", "unknown user", "valid"}

IdleSock == [conn |-> FALSE, pc |-> "idle", token |-> "none", userId |-> 0,
             userRoom |-> FALSE, rooms |-> {}, recorded |-> FALSE, reply |-> "none"]

NoWire == [n |-> 0, task |-> 0, to |-> {}, events |-> <<>>]

\* ---------------------------------------------------- the notifications
NoteIds == 1..MaxNotifications
\* the notifications that are sent: a title stands for title, content and
\* recipient
Titles == {"release notes", "disk full"}
\* a row of the table; retryCount is 0 in a row that create has made
NoNote == [exists |-> FALSE, status |-> "PENDING", retryCount |-> 0,
           title |-> "none", taskId |-> 0]
\* the call in flight: the rows retryFailedNotifications has still to go
\* through, and the row that sendNotification has created
IdleRetry == [op |-> "idle", pc |-> "idle", todo |-> <<>>, id |-> 0]

\* --------------------------------------------------- the system configs
ConfigCallers == 1..NumConfigCallers
ConfigValues == {"v1", "v2"}
\* a call on the key: config is what it has read, result what it returned
IdleConfigCall == [op |-> "idle", pc |-> "idle", config |-> Null, result |-> Null]

\* nothing submitted, no client connected, no notification, no config
InitSide ==
    /\ sub = IdleSub
    /\ sock = [s \in Sockets |-> IdleSock]
    /\ wire = NoWire
    /\ notif = [n \in NoteIds |-> NoNote]
    /\ rn = IdleRetry
    /\ configDb = Null
    /\ configCache = Null
    /\ cc = [c \in ConfigCallers |-> IdleConfigCall]

Init ==
    /\ InitCore
    /\ InitLog
    /\ InitHookDefault
    /\ InitGit
    /\ InitSide

\* ------------------------------------------------------------ the queue
LiveStates == {"waiting", "active", "delayed"}
LiveJobs == {j \in JobIds : job[j].state \in LiveStates}

\* calls that have passed their checks and will add a job
Adding == {c \in AllCallers : call[c].op \in {"create", "retry"} /\ call[c].pc # "done"}
\* job slots referenced by a cancel call that has looked its job up
Referenced == {call[c].jid : c \in {d \in AllCallers : call[d].op = "cancel" /\ call[d].pc = "remove"}}
FreeJobs == {j \in JobIds : job[j].state = "none" /\ j \notin Referenced}

\* Queue.count(): jobs waiting or delayed
QueueCount == Cardinality({j \in JobIds : job[j].state \in {"waiting", "delayed"}})

\* Queue.add(name, data, opts)
QueueAdd(tid, attempts) ==
    LET j == CHOOSE x \in FreeJobs : \A y \in FreeJobs : x <= y
    IN /\ job' = [job EXCEPT ![j] = [state |-> "waiting", taskId |-> tid,
                                     attempts |-> attempts, attemptsMade |-> 0]]
       /\ waitq' = Append(waitq, j)

Without(q, j) == SelectSeq(q, LAMBDA x : x # j)

\* --------------------------------------------------------------- create
ActiveOfType(ty) ==
    {t \in TaskIds : task[t].exists /\ task[t].type = ty
                     /\ task[t].status \in {"PENDING", "RUNNING"}}

FreeTasks == {t \in TaskIds : ~task[t].exists}
Creating == {c \in AllCallers : call[c].op = "create" /\ call[c].pc = "insert"}

\* a caller is free to start a call; the result of its last call stays
\* readable in its slot until then
Free(c) == call[c].pc \in {"idle", "done"}

\* create: findFirst of a PENDING or RUNNING task of the same app and type,
\* then buildQueue.count() against the ceiling
CreateCheckAt(c, ty, ceiling) ==
    /\ Free(c)
    /\ Cardinality(FreeTasks) > Cardinality(Creating)
    /\ Cardinality(FreeJobs) > Cardinality(Adding)
    /\ call' = [call EXCEPT ![c] =
          IF ActiveOfType(ty) # {}
          THEN [IdleCall EXCEPT !.op = "create", !.pc = "done",
                                !.res = "DuplicateActiveTask"]
          ELSE IF QueueCount >= ceiling
          THEN [IdleCall EXCEPT !.op = "create", !.pc = "done", !.res = "QueueFull"]
          ELSE [IdleCall EXCEPT !.op = "create", !.pc = "insert", !.type = ty]]
    /\ UNCHANGED <<task, job, waitq, wk, now, aux>>

\* create with the ceiling of the code, const maxQueueSize = 200
CreateCheck(c, ty) == CreateCheckAt(c, ty, maxQueueSize)

\* create: prisma.buildTask.create with status PENDING
CreateInsert(c) ==
    /\ call[c].op = "create" /\ call[c].pc = "insert"
    /\ LET t == CHOOSE x \in FreeTasks : \A y \in FreeTasks : x <= y
       IN /\ task' = [task EXCEPT ![t] =
                 [NoTask EXCEPT !.exists = TRUE, !.type = call[c].type,
                                !.createTime = now]]
          /\ call' = [call EXCEPT ![c] = [IdleCall EXCEPT !.op = "create", !.pc = "add", !.tid = t]]
    /\ UNCHANGED <<job, waitq, wk, now, aux>>

\* create: buildQueue.add with attempts 3
CreateAdd(c) ==
    /\ call[c].op = "create" /\ call[c].pc = "add"
    /\ QueueAdd(call[c].tid, CreateAttempts)
    /\ call' = [call EXCEPT ![c] = [@ EXCEPT !.pc = "done", !.res = "ok"]]
    /\ UNCHANGED <<task, wk, now, aux>>

\* ---------------------------------------------------------------- retry
\* retry with the bound checked one too late (retryCount > 3)
RetryCheckOffByOne(c, t) ==
    /\ Free(c)
    /\ task[t].exists
    /\ Cardinality(FreeJobs) > Cardinality(Adding)
    /\ call' = [call EXCEPT ![c] =
          IF task[t].status # "FAILED"
          THEN [IdleCall EXCEPT !.op = "retry", !.pc = "done", !.tid = t,
                                !.res = "InvalidState"]
          ELSE IF task[t].retryCount > MaxRetry
          THEN [IdleCall EXCEPT !.op = "retry", !.pc = "done", !.tid = t,
                                !.res = "RetryLimit"]
          ELSE [IdleCall EXCEPT !.op = "retry", !.pc = "update", !.tid = t,
                                !.rc = task[t].retryCount]]
    /\ UNCHANGED <<task, job, waitq, wk, now, aux>>

\* retry: findOne, then the checks on status and retryCount
RetryCheck(c, t) ==
    /\ Free(c)
    /\ task[t].exists
    /\ Cardinality(FreeJobs) > Cardinality(Adding)
    /\ call' = [call EXCEPT ![c] =
          IF task[t].status # "FAILED"
          THEN [IdleCall EXCEPT !.op = "retry", !.pc = "done", !.tid = t,
                                !.res = "InvalidState"]
          ELSE IF task[t].retryCount >= MaxRetry
          THEN [IdleCall EXCEPT !.op = "retry", !.pc = "done", !.tid = t,
                                !.res = "RetryLimit"]
          ELSE [IdleCall EXCEPT !.op = "retry", !.pc = "update", !.tid = t,
                                !.rc = task[t].retryCount]]
    /\ UNCHANGED <<task, job, waitq, wk, now, aux>>

\* retry: prisma.buildTask.update that resets the record
RetryUpdate(c) ==
    /\ call[c].op = "retry" /\ call[c].pc = "update"
    /\ task' = [task EXCEPT ![call[c].tid] =
          [@ EXCEPT !.status = "PENDING", !.retryCount = call[c].rc + 1,
                    !.progress = 0, !.startTime = Null, !.endTime = Null,
                    !.duration = Null, !.errorMessage = Null]]
    /\ call' = [call EXCEPT ![c] = [@ EXCEPT !.pc = "add", !.rc = 0]]
    /\ UNCHANGED <<job, waitq, wk, now, aux>>

\* retry: buildQueue.add with attempts 1
RetryAdd(c) ==
    /\ call[c].op = "retry" /\ call[c].pc = "add"
    /\ QueueAdd(call[c].tid, RetryAttempts)
    /\ call' = [call EXCEPT ![c] = [@ EXCEPT !.pc = "done", !.res = "ok"]]
    /\ UNCHANGED <<task, wk, now, aux>>

\* --------------------------------------------------------------- cancel
\* cancel: findOne, then the check on status
CancelCheck(c, t) ==
    /\ Free(c)
    /\ task[t].exists
    /\ call' = [call EXCEPT ![c] =
          IF task[t].status \notin {"PENDING", "RUNNING"}
          THEN [IdleCall EXCEPT !.op = "cancel", !.pc = "done", !.tid = t,
                                !.res = "InvalidState"]
          ELSE [IdleCall EXCEPT !.op = "cancel", !.pc = "getJobs", !.tid = t,
                                !.status = task[t].status]]
    /\ UNCHANGED <<task, job, waitq, wk, now, aux>>

\* the jobs jobs.find can return: getJobs lists the waiting jobs before the
\* active ones, and find takes the first job of the task
Found(t) ==
    LET w == {j \in JobIds : job[j].state = "waiting" /\ job[j].taskId = t}
        a == {j \in JobIds : job[j].state = "active" /\ job[j].taskId = t}
    IN IF w # {} THEN w ELSE a

\* cancel: buildQueue.getJobs(['waiting', 'active']) and jobs.find
CancelGetJobs(c) ==
    /\ call[c].op = "cancel" /\ call[c].pc = "getJobs"
    /\ IF Found(call[c].tid) = {}
       THEN call' = [call EXCEPT ![c] = [@ EXCEPT !.pc = "update"]]
       ELSE \E j \in Found(call[c].tid) :
               call' = [call EXCEPT ![c] = [@ EXCEPT !.pc = "remove", !.jid = j]]
    /\ UNCHANGED <<task, job, waitq, wk, now, aux>>

\* cancel: job.remove(). Bull refuses to remove a job that a worker holds
\* the lock of ("Could not remove job"), and the rejection leaves cancel
\* before its updateStatus; any other job is deleted from the queue.
CancelRemove(c) ==
    /\ call[c].op = "cancel" /\ call[c].pc = "remove"
    /\ LET j == call[c].jid
       IN IF job[j].state = "active"
          THEN /\ call' = [call EXCEPT ![c] = [@ EXCEPT !.pc = "done", !.jid = 0,
                                                        !.res = "Error"]]
               /\ UNCHANGED <<job, waitq>>
          ELSE /\ call' = [call EXCEPT ![c] = [@ EXCEPT !.pc = "update", !.jid = 0]]
               /\ job' = [job EXCEPT ![j] = NoJob]
               /\ waitq' = Without(waitq, j)
    /\ UNCHANGED <<task, wk, now, aux>>

\* cancel: updateStatus(id, CANCELLED), which writes the status only
CancelUpdate(c) ==
    /\ call[c].op = "cancel" /\ call[c].pc = "update"
    /\ task' = [task EXCEPT ![call[c].tid] = [@ EXCEPT !.status = "CANCELLED"]]
    /\ call' = [call EXCEPT ![c] = [@ EXCEPT !.pc = "done", !.res = "ok"]]
    /\ UNCHANGED <<job, waitq, wk, now, aux>>

\* --------------------------------------------------------------- worker
TaskOf(w) == job[wk[w].jid].taskId

\* the sockets in the room of a task: server.to(`task:${taskId}`)
Subscribers(t) == {s \in Sockets : sock[s].conn /\ t \in sock[s].rooms}

\* the payloads of sendBuildStatus and sendBuildLog
BuildStatus(status, progress) ==
    [kind |-> "build-status", status |-> status, progress |-> progress, log |-> "none"]
BuildLog(log) ==
    [kind |-> "build-log", status |-> "none", progress |-> 0, log |-> log]

\* server.to(room).emit for each of the events, in order: they go to the
\* sockets that are in the room now, and to nobody when it is empty
Emit(t, events) ==
    wire' = IF Subscribers(t) = {} THEN wire
            ELSE [n |-> 1 - wire.n, task |-> t, to |-> Subscribers(t), events |-> events]

\* everything but the wire, for the steps of build that emit
Silent == <<logVars, hookVars, gitVars, subVars, noteVars, cfgVars, sock>>

\* BuildService.build: what is emitted up to milestone k: the log of the
\* stage before it, the updateStatus of the milestone (SUCCESS for the
\* last one) and the sendLog after the last one
MilestoneEvents(k) ==
    (IF k >= FirstStage THEN <<BuildLog(Stages[k - FirstStage + 1])>> ELSE <<>>)
    \o (IF k = Len(Milestones)
        THEN <<BuildStatus("SUCCESS", Milestones[k]), BuildLog("build succeeded")>>
        ELSE <<BuildStatus("BUILDING", Milestones[k])>>)

\* updateProgress: Math.min(100, Math.max(0, progress))
Clamp(p) == IF p < 0 THEN 0 ELSE IF p > 100 THEN 100 ELSE p

\* Bull hands the head of the wait list to a free worker and locks it
WorkerPick(w) ==
    /\ wk[w].pc = "idle"
    /\ waitq # <<>>
    /\ LET j == Head(waitq)
       IN /\ job' = [job EXCEPT ![j] = [@ EXCEPT !.state = "active"]]
          /\ wk' = [wk EXCEPT ![w] = [IdleWorker EXCEPT !.pc = "setRunning", !.jid = j]]
    /\ waitq' = Tail(waitq)
    /\ UNCHANGED <<task, call, now, aux>>

\* handleBuildMiniprogram: updateStatus(taskId, RUNNING)
WSetRunning(w) ==
    /\ wk[w].pc = "setRunning"
    /\ task' = [task EXCEPT ![TaskOf(w)] =
          [@ EXCEPT !.status = "RUNNING", !.startTime = Some(now)]]
    /\ wk' = [wk EXCEPT ![w] = [@ EXCEPT !.pc = "progress"]]
    /\ UNCHANGED <<job, waitq, call, now, aux>>

\* handleBuildMiniprogram: updateProgress(taskId, 10)
WProgress(w) ==
    /\ wk[w].pc = "progress"
    /\ task' = [task EXCEPT ![TaskOf(w)] = [@ EXCEPT !.progress = Clamp(10)]]
    /\ wk' = [wk EXCEPT ![w] = [@ EXCEPT !.pc = "build", !.k = 1]]
    /\ UNCHANGED <<job, waitq, call, now, aux>>

\* BuildService.build: the next updateStatus('BUILDING', p, message), which
\* reaches updateProgress through onProgress
WMilestone(w) ==
    /\ wk[w].pc = "build"
    /\ task' = [task EXCEPT ![TaskOf(w)] =
          [@ EXCEPT !.progress = Clamp(Milestones[wk[w].k])]]
    /\ wk' = [wk EXCEPT ![w] =
          IF wk[w].k = Len(Milestones)
          THEN [@ EXCEPT !.pc = "end", !.k = 0, !.out = "SUCCESS"]
          ELSE [@ EXCEPT !.k = @ + 1]]
    /\ Emit(TaskOf(w), MilestoneEvents(wk[w].k))
    /\ UNCHANGED <<job, waitq, call, now, Silent>>

\* BuildService.build: the stage before the next milestone throws and the
\* catch of build is entered with its error, which updateStatus('FAILED')
\* and sendLog put on the wire
WStageFail(w) ==
    /\ wk[w].pc = "build"
    /\ wk[w].k >= FirstStage
    /\ \E m \in Messages :
          wk' = [wk EXCEPT ![w] = [@ EXCEPT !.pc = "catch", !.k = 0, !.err = m,
                                            !.failed = wk[w].k - FirstStage + 1]]
    /\ Emit(TaskOf(w), <<BuildStatus("FAILED", 0), BuildLog("build failed")>>)
    /\ UNCHANGED <<task, job, waitq, call, now, Silent>>

\* the catch of build with the error of its fs.remove escaping instead of
\* being logged and dropped
WCleanupEscapes(w) ==
    /\ wk[w].pc = "catch"
    /\ \/ wk' = [wk EXCEPT ![w] = [@ EXCEPT !.pc = "end", !.out = "FAILED", !.failed = 0]]
       \/ \E m \in Messages :
             wk' = [wk EXCEPT ![w] = [@ EXCEPT !.pc = "end", !.out = "FAILED",
                                               !.failed = 0, !.err = m]]
    /\ UNCHANGED <<task, job, waitq, call, now, aux>>

\* BuildService.build, catch: fs.remove(taskDir) inside its own try, whose
\* error is logged and dropped whatever it is, then throw error to the
\* catch of handleBuildMiniprogram; the locals of build are gone with it
WCleanup(w) ==
    /\ wk[w].pc = "catch"
    /\ wk' = [wk EXCEPT ![w] = [@ EXCEPT !.pc = "end", !.out = "FAILED", !.failed = 0]]
    /\ UNCHANGED <<task, job, waitq, call, now, aux>>

\* updateStatus(SUCCESS | FAILED): endTime = new Date() and the findUnique
\* that reads startTime
WEndRead(w) ==
    /\ wk[w].pc = "end"
    /\ wk' = [wk EXCEPT ![w] = [@ EXCEPT !.pc = "endWrite", !.endTime = Some(now),
                                         !.startTime = task[TaskOf(w)].startTime]]
    /\ UNCHANGED <<task, job, waitq, call, now, aux>>

\* updateStatus: Math.floor((endTime - startTime) / 1000)
Duration(endTime, startTime) == (endTime - startTime) \div 1000

\* updateStatus(SUCCESS | FAILED): the prisma update; FAILED comes with
\* errorMessage, and duration is written only when startTime was set
WEndWrite(w) ==
    /\ wk[w].pc = "endWrite"
    /\ task' = [task EXCEPT ![TaskOf(w)] =
          [@ EXCEPT !.status = wk[w].out,
                    !.endTime = wk[w].endTime,
                    !.duration = IF IsSet(wk[w].startTime)
                                 THEN Some(Duration(Val(wk[w].endTime), Val(wk[w].startTime)))
                                 ELSE @,
                    !.errorMessage = IF wk[w].out = "FAILED" THEN Some(wk[w].err) ELSE @]]
    /\ wk' = [wk EXCEPT ![w] = [@ EXCEPT !.pc = "endDone", !.endTime = Null, !.startTime = Null]]
    /\ UNCHANGED <<job, waitq, call, now, aux>>

\* the handler returns: Bull moves the job to completed
WReturn(w) ==
    /\ wk[w].pc = "endDone" /\ wk[w].out = "SUCCESS"
    /\ job' = [job EXCEPT ![wk[w].jid] = NoJob]
    /\ wk' = [wk EXCEPT ![w] = IdleWorker]
    /\ UNCHANGED <<task, waitq, call, now, aux>>

\* the handler rethrows: Bull delays the job for another attempt while
\* attempts are left, and moves it to failed otherwise
WThrow(w) ==
    /\ wk[w].pc = "endDone" /\ wk[w].out = "FAILED"
    /\ LET j == wk[w].jid
       IN job' = [job EXCEPT ![j] =
             IF job[j].attemptsMade + 1 < job[j].attempts
             THEN [@ EXCEPT !.state = "delayed", !.attemptsMade = @ + 1]
             ELSE NoJob]
    /\ wk' = [wk EXCEPT ![w] = IdleWorker]
    /\ UNCHANGED <<task, waitq, call, now, aux>>

\* the backoff delay of a job is over: Bull moves it to the wait list
Promote(j) ==
    /\ job[j].state = "delayed"
    /\ job' = [job EXCEPT ![j] = [@ EXCEPT !.state = "waiting"]]
    /\ waitq' = Append(waitq, j)
    /\ UNCHANGED <<task, call, wk, now, aux>>

\* time passes
Tick ==
    /\ now < MaxTicks * TickMs
    /\ now' = now + TickMs
    /\ UNCHANGED <<task, job, waitq, call, wk, aux>>

\* ------------------------------------------------- cleanupExpiredTasks
Terminal == {"SUCCESS", "FAILED", "CANCELLED"}

\* expiredDate: now moved back by 30 days
ExpiredDate == now - RetentionDays * DayMs

\* the where clause of deleteMany
Expired(r) == r.exists /\ r.createTime < ExpiredDate /\ r.status \in Terminal

\* cleanupExpiredTasks: one prisma.buildTask.deleteMany
CleanupExpiredTasks ==
    /\ \E t \in TaskIds : task[t].exists
    /\ task' = [t \in TaskIds |-> IF Expired(task[t]) THEN NoTask ELSE task[t]]
    /\ UNCHANGED <<job, waitq, call, wk, now, aux>>

\* the table the sweep finds: records of every status, created and ended
\* some days before the sweep
SweepAges == {1, RetentionDays, RetentionDays + 1}
SweepNow == (RetentionDays + 2) * DayMs

SweepRecord(ty, st, created, ended, m) ==
    [exists |-> TRUE, type |-> ty, status |-> st,
     createTime |-> SweepNow - created * DayMs, retryCount |-> 0,
     progress |-> IF st = "SUCCESS" THEN 100 ELSE 0,
     startTime |-> IF st = "PENDING" THEN Null ELSE Some(SweepNow - created * DayMs),
     endTime |-> IF st \in {"SUCCESS", "FAILED"} THEN Some(SweepNow - ended * DayMs) ELSE Null,
     duration |-> IF st \in {"SUCCESS", "FAILED"}
                  THEN Some(((created - ended) * DayMs) \div 1000) ELSE Null,
     errorMessage |-> IF st = "FAILED" THEN Some(m) ELSE Null]

SweepRecords ==
    {NoTask} \cup
    {SweepRecord(ty, st, created, ended, "command failed") :
        ty \in BuildTypes, st \in TaskStatus,
        created \in SweepAges, ended \in SweepAges}

InitSweep ==
    /\ task \in [TaskIds -> {r \in SweepRecords :
                      ~r.exists \/ ~IsSet(r.endTime) \/ Val(r.endTime) >= r.createTime}]
    /\ job = [j \in JobIds |-> NoJob]
    /\ waitq = <<>>
    /\ call = [c \in AllCallers |-> IdleCall]
    /\ wk = [w \in AllWorkers |-> IdleWorker]
    /\ now = SweepNow
    /\ InitLog
    /\ InitHookDefault
    /\ InitGit
    /\ InitSide

\* ------------------------------------------------------- handleGitEvent
\* parseGitEvent: the canonical event of a payload, or NoEvent for null.
\* parseGitHubEvent and parseGitLabEvent switch on the event type and read
\* the fields of that kind of payload, which throws on a payload of another
\* shape (the catch of parseGitEvent returns null); parseGenericEvent takes
\* any event type but wants payload.repository && payload.commits
ParseGitEvent(provider, raw, shape, branch, merged) ==
    LET push == [eventType |-> "push", branch |-> branch, merged |-> FALSE]
        pr == [eventType |-> "pull_request", branch |-> branch, merged |-> merged]
    IN CASE provider = "github" ->
              IF raw = "push" /\ shape = "push" THEN push
              ELSE IF raw = "pull_request" /\ shape = "pull_request" THEN pr
              ELSE NoEvent
         [] provider = "gitlab" ->
              IF raw = "Push Hook" /\ shape = "push" THEN push
              ELSE IF raw = "Merge Request Hook" /\ shape = "pull_request" THEN pr
              ELSE NoEvent
         [] OTHER ->
              IF shape = "push"
              THEN [eventType |-> raw, branch |-> branch, merged |-> FALSE]
              ELSE NoEvent

\* crypto.createHmac('sha256', key).update(payload).digest('hex') of the
\* payload of the request
Hmac(key) == <<"sha256", key>>

\* verifySignature: hubSig is the key the sender computed x-hub-signature-256
\* with ("" without the header), token the x-gitlab-token header
VerifySignature(secret, hubSig, token) ==
    IF hubSig # "" THEN Hmac(hubSig) = Hmac(secret)
    ELSE IF token # "" THEN token = secret
    ELSE TRUE

\* shouldTriggerBuild without the check that a pull request is merged
ShouldTriggerBuildAnyPR(e, mp) ==
    IF ~mp.config THEN [should |-> FALSE, reason |-> "no build config"]
    ELSE IF ~mp.autoBuild THEN [should |-> FALSE, reason |-> "autoBuild disabled"]
    ELSE IF e.branch # (IF mp.gitBranch # "" THEN mp.gitBranch ELSE "master")
    THEN [should |-> FALSE, reason |-> "branch mismatch"]
    ELSE IF e.eventType \in {"push", "pull_request"}
    THEN [should |-> TRUE, reason |-> "triggers build"]
    ELSE [should |-> FALSE, reason |-> "unsupported event type"]

\* shouldTriggerBuild(eventData, miniprogram)
ShouldTriggerBuild(e, mp) ==
    IF ~mp.config THEN [should |-> FALSE, reason |-> "no build config"]
    ELSE IF ~mp.autoBuild THEN [should |-> FALSE, reason |-> "autoBuild disabled"]
    ELSE IF e.branch # (IF mp.gitBranch # "" THEN mp.gitBranch ELSE "master")
    THEN [should |-> FALSE, reason |-> "branch mismatch"]
    ELSE IF e.eventType = "push"
    THEN [should |-> TRUE, reason |-> "push triggers build"]
    ELSE IF e.eventType = "pull_request"
    THEN IF e.merged THEN [should |-> TRUE, reason |-> "merged PR triggers build"]
         ELSE [should |-> FALSE, reason |-> "PR not merged"]
    ELSE [should |-> FALSE, reason |-> "unsupported event type"]

\* the slot of call that the create of triggerBuild runs in, and the slot
\* of the create calls of the API beside it
HookCaller == 1
ApiCaller == 2

Returned(message) ==
    [IdleReq EXCEPT !.pc = "done", !.n = req.n, !.message = message]
Thrown(error) ==
    [IdleReq EXCEPT !.pc = "done", !.n = req.n, !.error = error]

\* handleGitEvent is called, and miniprogramsService.findOne finds the app
HReceive(provider, raw, shape, branch, merged, hubSig, token) ==
    /\ req.pc \in {"idle", "done"}
    /\ req.n < MaxRequests
    /\ req' = [IdleReq EXCEPT !.pc = "findMany", !.n = req.n + 1,
                              !.provider = provider, !.raw = raw,
                              !.shape = shape, !.branch = branch, !.merged = merged,
                              !.hubSig = hubSig, !.token = token]
    /\ UNCHANGED <<core, logVars, gitVars, app, webhook, sideVars>>

\* handleGitEvent: webhook.findMany of the ACTIVE webhooks, parseGitEvent,
\* the webhook listening to the event type, verifySignature
HFindMany ==
    /\ req.pc = "findMany"
    /\ LET e == ParseGitEvent(req.provider, req.raw, req.shape, req.branch, req.merged)
       IN req' =
            IF webhook.status # "ACTIVE" THEN Returned("no active webhook")
            ELSE IF e = NoEvent THEN Returned("unsupported event or payload")
            ELSE IF e.eventType \notin webhook.events THEN Returned("no webhook listens")
            ELSE IF webhook.secret # ""
                    /\ ~VerifySignature(webhook.secret, req.hubSig, req.token)
            THEN Thrown("SignatureInvalid")
            ELSE [IdleReq EXCEPT !.pc = "touch", !.n = req.n, !.event = e]
    /\ UNCHANGED <<core, logVars, gitVars, app, webhook, sideVars>>

\* handleGitEvent: webhook.update of lastTrigger, then shouldTriggerBuild
HTouch ==
    /\ req.pc = "touch"
    /\ webhook' = [webhook EXCEPT !.lastTrigger = Some(now)]
    /\ LET d == ShouldTriggerBuild(req.event, app)
       IN req' = IF d.should THEN [req EXCEPT !.pc = "version"]
                 ELSE Returned(d.reason)
    /\ UNCHANGED <<core, logVars, gitVars, app, sideVars>>

\* triggerBuild, autoIncrementVersion: findOne reads the version
HVersionRead ==
    /\ req.pc = "version"
    /\ req' = [req EXCEPT !.pc = "updateVersion", !.version = app.version]
    /\ UNCHANGED <<core, logVars, gitVars, app, webhook, sideVars>>

\* triggerBuild, autoIncrementVersion: updateVersion with the patch number
\* read plus one
HVersionWrite ==
    /\ req.pc = "updateVersion"
    /\ app' = [app EXCEPT !.version = req.version + 1]
    /\ req' = [req EXCEPT !.pc = "create", !.version = 0]
    /\ UNCHANGED <<core, logVars, gitVars, webhook, sideVars>>

\* triggerBuild: buildTasksService.create of a PREVIEW task starts
HCreate ==
    /\ req.pc = "create"
    /\ call[HookCaller].pc = "idle"
    /\ CreateCheck(HookCaller, "PREVIEW")

\* handleGitEvent with a rejection of create turned into an answer
HReturnSwallows ==
    /\ req.pc = "create"
    /\ call[HookCaller].op = "create" /\ call[HookCaller].pc = "done"
    /\ req' = IF call[HookCaller].res = "ok"
              THEN [IdleReq EXCEPT !.pc = "done", !.n = req.n, !.triggered = TRUE,
                                   !.taskId = call[HookCaller].tid,
                                   !.message = "build triggered"]
              ELSE Returned(call[HookCaller].res)
    /\ call' = [call EXCEPT ![HookCaller] = IdleCall]
    /\ UNCHANGED <<task, job, waitq, wk, now, logVars, gitVars, app, webhook, sideVars>>

\* handleGitEvent: create has returned the task, or thrown, which the catch
\* of handleGitEvent logs and throws on
HReturn ==
    /\ req.pc = "create"
    /\ call[HookCaller].op = "create" /\ call[HookCaller].pc = "done"
    /\ req' = IF call[HookCaller].res = "ok"
              THEN [IdleReq EXCEPT !.pc = "done", !.n = req.n, !.triggered = TRUE,
                                   !.taskId = call[HookCaller].tid,
                                   !.message = "build triggered"]
              ELSE Thrown(call[HookCaller].res)
    /\ call' = [call EXCEPT ![HookCaller] = IdleCall]
    /\ UNCHANGED <<task, job, waitq, wk, now, logVars, gitVars, app, webhook, sideVars>>

\* ------------------------------------------------- getRepositoryBranches
\* the catch of getRepositoryBranches: the call answers success: false with
\* the message of the error
GCaught(g, e) ==
    [g EXCEPT !.pc = "done", !.thrown = NoError, !.success = FALSE, !.error = e]

\* getRepositoryBranches is called: validateRepositoryUrl; the files that
\* earlier calls left in tempDir are still there
GStart(cred, urlOk, isValid, remote) ==
    /\ gitop.pc \in {"idle", "done"}
    /\ LET g == [IdleGit EXCEPT !.urlOk = urlOk, !.isValid = isValid,
                                 !.remote = remote, !.credential = cred,
                                 !.keyFile = gitop.keyFile]
       IN gitop' = IF urlOk THEN [g EXCEPT !.pc = "getCredential"]
                   ELSE GCaught(g, GitOperationException("INVALID_URL", <<"invalid URL">>))
    /\ UNCHANGED <<core, logVars, hookVars, sideVars>>

\* gitCredentialsService.getDecryptedCredential
GGetCredential ==
    /\ gitop.pc = "getCredential"
    /\ gitop' = [gitop EXCEPT !.pc = "validate"]
    /\ UNCHANGED <<core, logVars, hookVars, sideVars>>

\* gitCredentialsService.validateCredential, which decrypts the secrets
\* that are there
GValidate ==
    /\ gitop.pc = "validate"
    /\ gitop' = IF gitop.isValid THEN [gitop EXCEPT !.pc = "mkdir"]
                 ELSE GCaught(gitop, GitOperationException("INVALID_CREDENTIALS",
                                                           <<"validation failed">>))
    /\ UNCHANGED <<core, logVars, hookVars, sideVars>>

\* createTempWorkDirectory
GMkdir ==
    /\ gitop.pc = "mkdir"
    /\ gitop' = [gitop EXCEPT !.pc = "configure", !.workDir = TRUE]
    /\ UNCHANGED <<core, logVars, hookVars, sideVars>>

\* the secret that the auth type of credential c needs is missing
MissingSecret(c) ==
    CASE c.authType = "HTTPS" -> ~c.decryptedPassword \/ ~c.username
      [] c.authType = "SSH" -> ~c.decryptedSshKey
      [] c.authType = "TOKEN" -> ~c.decryptedToken

\* what configureHttpsAuth, configureSshAuth and configureTokenAuth throw
\* when the secret is missing
MissingSecretError(c) ==
    GitOperationException("INVALID_CREDENTIALS",
       CASE c.authType = "HTTPS" -> <<"HTTPS needs username and password">>
         [] c.authType = "SSH" -> <<"SSH needs a private key">>
         [] c.authType = "TOKEN" -> <<"TOKEN needs an access token">>)

\* the catch of configureGitWithCredentials, which is around the switch
Wrapped(e) ==
    GitOperationException("AUTHENTICATION_FAILED", <<"git auth configuration failed">> \o e.message)

\* configureGitWithCredentials up to its first await: the check of the
\* secret in the function of the auth type; a throw leaves through the
\* catch of configureGitWithCredentials to the finally of the caller
GConfigure ==
    /\ gitop.pc = "configure"
    /\ gitop' =
          IF MissingSecret(gitop.credential)
          THEN [gitop EXCEPT !.pc = "cleanup",
                             !.thrown = Wrapped(MissingSecretError(gitop.credential))]
          ELSE [gitop EXCEPT !.pc = CASE gitop.credential.authType = "HTTPS" -> "init"
                                      [] gitop.credential.authType = "SSH" -> "writeKey"
                                      [] gitop.credential.authType = "TOKEN" -> "addRemote"]
    /\ UNCHANGED <<core, logVars, hookVars, sideVars>>

\* configureHttpsAuth: git.init and the two git.addConfig, whose errors are
\* logged and dropped
GInit ==
    /\ gitop.pc = "init"
    /\ gitop' = [gitop EXCEPT !.pc = "addRemote",
                               !.ops = @ \o <<"init", "addConfig", "addConfig">>]
    /\ UNCHANGED <<core, logVars, hookVars, sideVars>>

\* configureSshAuth: the private key is written to a file of tempDir
GWriteKey ==
    /\ gitop.pc = "writeKey"
    /\ gitop' = [gitop EXCEPT !.pc = "addRemote", !.keyFile = TRUE,
                               !.ops = Append(@, "writeFile")]
    /\ UNCHANGED <<core, logVars, hookVars, sideVars>>

\* fetchRemoteBranches: git.addRemote('origin', url)
GAddRemote ==
    /\ gitop.pc = "addRemote"
    /\ gitop' = [gitop EXCEPT !.pc = "listRemote", !.ops = Append(@, "addRemote")]
    /\ UNCHANGED <<core, logVars, hookVars, sideVars>>

\* the catch of fetchRemoteBranches: the error of git by its message
RemoteError(answer) ==
    CASE answer = "Authentication failed" ->
            GitOperationException("AUTHENTICATION_FAILED", <<"authentication failed">>)
      [] answer = "not found" ->
            GitOperationException("REPOSITORY_NOT_FOUND", <<"repository not found">>)
      [] OTHER -> GitOperationException("NETWORK_ERROR", <<"network error", answer>>)

\* fetchRemoteBranches: git.listRemote(['--heads', 'origin'])
GListRemote ==
    /\ gitop.pc = "listRemote"
    /\ gitop' = IF gitop.remote = "ok"
                 THEN [gitop EXCEPT !.pc = "defaultBranch", !.ops = Append(@, "listRemote")]
                 ELSE [gitop EXCEPT !.pc = "cleanup", !.ops = Append(@, "listRemote"),
                                    !.thrown = RemoteError(gitop.remote)]
    /\ UNCHANGED <<core, logVars, hookVars, sideVars>>

\* getDefaultBranch: git.raw(['symbolic-ref', ...]), 'main' when it fails
GDefaultBranch ==
    /\ gitop.pc = "defaultBranch"
    /\ gitop' = [gitop EXCEPT !.pc = "cleanup", !.ops = Append(@, "symbolic-ref")]
    /\ UNCHANGED <<core, logVars, hookVars, sideVars>>

\* finally: cleanupTempDirectory removes the work directory, or fails and
\* logs it; then the call returns the branches or reaches its catch
GCleanup ==
    /\ gitop.pc = "cleanup"
    /\ \E removed \in BOOLEAN :
          gitop' = IF gitop.thrown = NoError
                   THEN [gitop EXCEPT !.pc = "done", !.success = TRUE,
                                      !.workDir = ~removed]
                   ELSE GCaught([gitop EXCEPT !.workDir = ~removed], gitop.thrown)
    /\ UNCHANGED <<core, logVars, hookVars, sideVars>>

GitStep ==
    \/ \E cred \in Credentials, urlOk \in BOOLEAN, isValid \in BOOLEAN,
          remote \in RemoteAnswers : GStart(cred, urlOk, isValid, remote)
    \/ GGetCredential
    \/ GValidate
    \/ GMkdir
    \/ GConfigure
    \/ GInit
    \/ GWriteKey
    \/ GAddRemote
    \/ GListRemote
    \/ GDefaultBranch
    \/ GCleanup

\* ------------------------------------------------------------ appendLog
\* appendLog(id, log): prisma.buildTask.findUnique and task?.buildLog || ''
AppendRead(a, t) ==
    /\ ap[a].pc \in {"idle", "done"}
    /\ task[t].exists
    /\ Len(issued) < MaxLines
    /\ issued' = Append(issued, t)
    /\ ap' = [ap EXCEPT ![a] = [pc |-> "update", tid |-> t, line |-> Len(issued) + 1,
                                 currentLog |-> buildLog[t]]]
    /\ UNCHANGED <<core, buildLog, hookVars, gitVars, sideVars>>

\* appendLog: prisma.buildTask.update with buildLog: currentLog + log + '\n'
AppendUpdate(a) ==
    /\ ap[a].pc = "update"
    /\ buildLog' = [buildLog EXCEPT ![ap[a].tid] = Append(ap[a].currentLog, ap[a].line)]
    /\ ap' = [ap EXCEPT ![a] = [@ EXCEPT !.pc = "done", !.currentLog = <<>>]]
    /\ UNCHANGED <<core, issued, hookVars, gitVars, sideVars>>

AppendStep(a) ==
    \/ \E t \in TaskIds : AppendRead(a, t)
    \/ AppendUpdate(a)

\* ------------------------------------------- the submission of a build
\* the slot of call that the checks of create from findFirst on run in
SubmitCaller == 1

SubmitDone(res, tid) == [sub EXCEPT !.pc = "done", !.res = res, !.tid = tid]

\* create is called for an app: miniprogramsService.findOne(appId)
SFindOne(appExists, authorized, gitUrl, authType, secret, ty) ==
    /\ sub.pc \in {"idle", "done"}
    /\ sub.n < MaxSubmits
    /\ LET a == [IdleSub EXCEPT !.n = sub.n + 1, !.appExists = appExists,
                                 !.authorized = authorized, !.gitUrl = gitUrl,
                                 !.authType = authType, !.secret = secret, !.type = ty]
       IN sub' = IF appExists THEN [a EXCEPT !.pc = "findUser"]
                 ELSE [a EXCEPT !.pc = "done", !.res = "NotFound"]
    /\ UNCHANGED <<core, logVars, hookVars, gitVars, gwVars, noteVars, cfgVars>>

\* create: user.findUnique, and the caller is ADMIN or owns the app
SFindUser ==
    /\ sub.pc = "findUser"
    /\ sub' = IF sub.authorized THEN [sub EXCEPT !.pc = "create"]
              ELSE SubmitDone("Unauthorized", 0)
    /\ UNCHANGED <<core, logVars, hookVars, gitVars, gwVars, noteVars, cfgVars>>

\* create: findFirst of an active task of the type and buildQueue.count(),
\* against a ceiling the queue can reach
SCheck ==
    /\ sub.pc = "create"
    /\ call[SubmitCaller].pc = "idle"
    /\ CreateCheckAt(SubmitCaller, sub.type, QueueCeiling)

\* create returns the task, or throws
SReturn ==
    /\ sub.pc = "create"
    /\ call[SubmitCaller].op = "create" /\ call[SubmitCaller].pc = "done"
    /\ sub' = SubmitDone(call[SubmitCaller].res, call[SubmitCaller].tid)
    /\ call' = [call EXCEPT ![SubmitCaller] = IdleCall]
    /\ UNCHANGED <<task, job, waitq, wk, now, logVars, hookVars, gitVars, gwVars,
                   noteVars, cfgVars>>

\* cloneRepository: what it throws for the build config of the app before
\* it runs git clone ("none" when it gets to git clone); a HTTPS credential
\* without password leaves cloneUrl as gitUrl
CloneRepositoryError(gitUrl, authType, secret) ==
    IF ~gitUrl THEN "no git url configured"
    ELSE IF authType = "SSH" THEN "credential: SSH not supported"
    ELSE "none"

\* --------------------------------------------------- the system configs
ConfigFree(c) == cc[c].pc \in {"idle", "done"}
ConfigFrame == UNCHANGED <<core, logVars, hookVars, gitVars, subVars, gwVars, noteVars>>

\* getConfig: redis.get(cacheKey), and the cached config is returned
GetConfigCached(c) ==
    /\ ConfigFree(c)
    /\ cc' = [cc EXCEPT ![c] =
          IF configCache # Null
          THEN [IdleConfigCall EXCEPT !.op = "get", !.pc = "done", !.result = configCache]
          ELSE [IdleConfigCall EXCEPT !.op = "get", !.pc = "findUnique"]]
    /\ UNCHANGED <<configDb, configCache>>
    /\ ConfigFrame

\* getConfig: prisma.systemConfig.findUnique({ where: { key } })
GetConfigFind(c) ==
    /\ cc[c].op = "get" /\ cc[c].pc = "findUnique"
    /\ cc' = [cc EXCEPT ![c] =
          IF configDb # Null THEN [@ EXCEPT !.pc = "set", !.config = configDb]
          ELSE [@ EXCEPT !.pc = "done"]]
    /\ UNCHANGED <<configDb, configCache>>
    /\ ConfigFrame

\* getConfig: redis.set(cacheKey, JSON.stringify(config), CACHE_TTL)
GetConfigSet(c) ==
    /\ cc[c].op = "get" /\ cc[c].pc = "set"
    /\ configCache' = cc[c].config
    /\ cc' = [cc EXCEPT ![c] = [@ EXCEPT !.pc = "done", !.config = Null,
                                        !.result = cc[c].config]]
    /\ UNCHANGED configDb
    /\ ConfigFrame

\* setConfig: prisma.systemConfig.upsert
SetConfigUpsert(c, v) ==
    /\ ConfigFree(c)
    /\ configDb' = Some(v)
    /\ cc' = [cc EXCEPT ![c] = [IdleConfigCall EXCEPT !.op = "set", !.pc = "del"]]
    /\ UNCHANGED configCache
    /\ ConfigFrame

\* deleteConfig: findUnique, NotFoundException when there is no row
DeleteConfigFind(c) ==
    /\ ConfigFree(c)
    /\ cc' = [cc EXCEPT ![c] =
          IF configDb # Null THEN [IdleConfigCall EXCEPT !.op = "delete", !.pc = "delete"]
          ELSE [IdleConfigCall EXCEPT !.op = "delete", !.pc = "done"]]
    /\ UNCHANGED <<configDb, configCache>>
    /\ ConfigFrame

\* deleteConfig: prisma.systemConfig.delete
DeleteConfigDelete(c) ==
    /\ cc[c].op = "delete" /\ cc[c].pc = "delete"
    /\ configDb' = Null
    /\ cc' = [cc EXCEPT ![c] = [@ EXCEPT !.pc = "del"]]
    /\ UNCHANGED configCache
    /\ ConfigFrame

\* setConfig and deleteConfig: redis.del(cacheKey)
ConfigDel(c) ==
    /\ cc[c].op \in {"set", "delete"} /\ cc[c].pc = "del"
    /\ configCache' = Null
    /\ cc' = [cc EXCEPT ![c] = [@ EXCEPT !.pc = "done"]]
    /\ UNCHANGED configDb
    /\ ConfigFrame

\* the entry of the cache expires after CACHE_TTL
ConfigExpire ==
    /\ configCache # Null
    /\ configCache' = Null
    /\ UNCHANGED <<configDb, cc>>
    /\ ConfigFrame

ConfigStep(c) ==
    \/ GetConfigCached(c)
    \/ GetConfigFind(c)
    \/ GetConfigSet(c)
    \/ \E v \in ConfigValues : SetConfigUpsert(c, v)
    \/ DeleteConfigFind(c)
    \/ DeleteConfigDelete(c)
    \/ ConfigDel(c)

\* ---------------------------------------------------- the notifications
\* retryFailedNotifications: retryCount: { lt: 3 } and take: 10
MaxNotificationRetry == 3
RetryBatch == 10

FreeNotes == {n \in NoteIds : ~notif[n].exists}
NoteFrame == UNCHANGED <<core, logVars, hookVars, gitVars, subVars, gwVars, cfgVars>>

\* POST notifications/send: sendNotification creates the row of a
\* notification that has not been sent before (prisma.notification.create
\* with status PENDING)
NSend(title) ==
    /\ rn.pc \in {"idle", "done"}
    /\ \A n \in NoteIds : notif[n].exists => notif[n].title # title
    /\ FreeNotes # {}
    /\ LET n == CHOOSE x \in FreeNotes : \A y \in FreeNotes : x <= y
       IN /\ notif' = [notif EXCEPT ![n] = [NoNote EXCEPT !.exists = TRUE, !.title = title]]
          /\ rn' = [IdleRetry EXCEPT !.op = "send", !.pc = "deliver", !.id = n]
    /\ NoteFrame

\* sendBuildCompleteNotification: findUnique of the task, which is not
\* asked for its status; without the task, or without a dingtalk webhook
\* in the config of the app, nothing is sent
NBuildComplete(t, dingtalk) ==
    /\ rn.pc \in {"idle", "done"}
    /\ IF task[t].exists /\ dingtalk
       THEN /\ FreeNotes # {}
            /\ LET n == CHOOSE x \in FreeNotes : \A y \in FreeNotes : x <= y
               IN /\ notif' = [notif EXCEPT ![n] =
                         [NoNote EXCEPT !.exists = TRUE, !.title = "build result",
                                        !.taskId = t]]
                  /\ rn' = [IdleRetry EXCEPT !.op = "buildComplete", !.pc = "deliver",
                                             !.id = n]
       ELSE /\ rn' = [IdleRetry EXCEPT !.op = "buildComplete", !.pc = "done"]
            /\ UNCHANGED notif
    /\ NoteFrame

\* what follows the update of sendNotification: the next row of the loop
\* of retryFailedNotifications, or the end of the call
AfterSend == IF rn.op = "retry" THEN [rn EXCEPT !.pc = "next", !.id = 0]
             ELSE [rn EXCEPT !.pc = "done", !.id = 0]

\* sendNotification: dingtalkService.sendMessage resolves or rejects, and
\* the row is updated to SENT, or to FAILED with the retryCount that
\* create returned plus one
NUpdate ==
    /\ rn.pc = "deliver"
    /\ \E delivered \in BOOLEAN :
          notif' = [notif EXCEPT ![rn.id] =
             IF delivered THEN [@ EXCEPT !.status = "SENT"]
             ELSE [@ EXCEPT !.status = "FAILED",
                            !.retryCount = NoNote.retryCount + 1]]
    /\ rn' = AfterSend
    /\ NoteFrame

RECURSIVE Ascending(_)
\* the elements of a set of numbers in ascending order
Ascending(S) ==
    IF S = {} THEN <<>>
    ELSE LET m == CHOOSE x \in S : \A y \in S : x <= y
         IN <<m>> \o Ascending(S \ {m})

Take(q, k) == SubSeq(q, 1, IF Len(q) < k THEN Len(q) ELSE k)

\* retryFailedNotifications: findMany of the FAILED rows with retryCount
\* below 3, at most 10 of them
NRetryFind ==
    /\ rn.pc \in {"idle", "done"}
    /\ rn' = [IdleRetry EXCEPT !.op = "retry", !.pc = "next",
                 !.todo = Take(Ascending({n \in NoteIds :
                                  /\ notif[n].exists
                                  /\ notif[n].status = "FAILED"
                                  /\ notif[n].retryCount < MaxNotificationRetry}),
                               RetryBatch)]
    /\ UNCHANGED notif
    /\ NoteFrame

\* retryFailedNotifications: sendNotification with the fields of the next
\* row creates a row, or the loop is over
NRetryNext ==
    /\ rn.op = "retry" /\ rn.pc = "next"
    /\ IF rn.todo = <<>>
       THEN /\ rn' = [rn EXCEPT !.pc = "done"]
            /\ UNCHANGED notif
       ELSE /\ FreeNotes # {}
            /\ LET n == CHOOSE x \in FreeNotes : \A y \in FreeNotes : x <= y
                   old == notif[Head(rn.todo)]
               IN /\ notif' = [notif EXCEPT ![n] =
                         [NoNote EXCEPT !.exists = TRUE, !.title = old.title,
                                        !.taskId = old.taskId]]
                  /\ rn' = [rn EXCEPT !.pc = "deliver", !.id = n, !.todo = Tail(@)]
    /\ NoteFrame

NotifyStep ==
    \/ \E title \in Titles : NSend(title)
    \/ \E t \in TaskIds, dingtalk \in BOOLEAN : NBuildComplete(t, dingtalk)
    \/ NUpdate
    \/ NRetryFind
    \/ NRetryNext

\* ---------------------------------------------------------- the gateway
GwFrame == UNCHANGED <<core, logVars, hookVars, gitVars, subVars, noteVars, cfgVars, wire>>

\* client.disconnect(), or the client going away: socket.io takes the
\* socket out of its rooms and handleDisconnect deletes it from
\* connectedClients
Disconnected(k) ==
    [k EXCEPT !.conn = FALSE, !.rooms = {}, !.userRoom = FALSE, !.recorded = FALSE]

\* handleConnection: a client connects; without a token, or with one that
\* jwtService.verify throws on, it is disconnected
GwConnect(s, token) ==
    /\ sock[s].pc = "idle"
    /\ sock' = [sock EXCEPT ![s] =
          IF token \in {"none", "invalid"}
          THEN [IdleSock EXCEPT !.token = token, !.pc = "done"]
          ELSE [IdleSock EXCEPT !.token = token, !.pc = "findOne", !.conn = TRUE]]
    /\ GwFrame

\* handleConnection without the check of the user that findOne returns
GwFindOneAnyUser(s) ==
    /\ sock[s].pc = "findOne"
    /\ sock' = [sock EXCEPT ![s] = [@ EXCEPT !.pc = "join", !.userId = 1]]
    /\ GwFrame

\* handleConnection: usersService.findOne(payload.sub); without a user the
\* client is disconnected, else client.userId is set
GwFindOne(s) ==
    /\ sock[s].pc = "findOne"
    /\ sock' = [sock EXCEPT ![s] =
          IF sock[s].token = "valid" THEN [@ EXCEPT !.pc = "join", !.userId = 1]
          ELSE [Disconnected(@) EXCEPT !.pc = "done"]]
    /\ GwFrame

\* handleConnection: client.join of the user room, connectedClients.set
\* and the connected event
GwJoin(s) ==
    /\ sock[s].pc = "join"
    /\ sock' = [sock EXCEPT ![s] = [@ EXCEPT !.pc = "done", !.userRoom = sock[s].conn,
                                            !.recorded = TRUE, !.reply = "connected"]]
    /\ GwFrame

\* handleSubscribeTask: error for a socket without userId, else the socket
\* joins the room of the task
GwSubscribe(s, t) ==
    /\ sock[s].conn
    /\ sock' = [sock EXCEPT ![s] =
          IF sock[s].userId = 0 THEN [@ EXCEPT !.reply = "error"]
          ELSE [@ EXCEPT !.rooms = @ \cup {t}, !.reply = "subscribed"]]
    /\ GwFrame

\* handleUnsubscribeTask: error for a socket without userId, else the
\* socket leaves the room of the task
GwUnsubscribe(s, t) ==
    /\ sock[s].conn
    /\ sock' = [sock EXCEPT ![s] =
          IF sock[s].userId = 0 THEN [@ EXCEPT !.reply = "error"]
          ELSE [@ EXCEPT !.rooms = @ \ {t}, !.reply = "unsubscribed"]]
    /\ GwFrame

\* the client goes away: handleDisconnect
GwDisconnect(s) ==
    /\ sock[s].conn
    /\ sock' = [sock EXCEPT ![s] = Disconnected(@)]
    /\ GwFrame

GatewayStep(s) ==
    \/ \E token \in Tokens : GwConnect(s, token)
    \/ GwFindOne(s)
    \/ GwJoin(s)
    \/ \E t \in TaskIds : GwSubscribe(s, t)
    \/ \E t \in TaskIds : GwUnsubscribe(s, t)
    \/ GwDisconnect(s)

\* ------------------------------------------------------- specifications
CreateStep(c) ==
    \/ CreateInsert(c)
    \/ CreateAdd(c)

RetryStep(c) ==
    \/ \E t \in TaskIds : RetryCheck(c, t)
    \/ RetryUpdate(c)
    \/ RetryAdd(c)

CancelStep(c) ==
    \/ \E t \in TaskIds : CancelCheck(c, t)
    \/ CancelGetJobs(c)
    \/ CancelRemove(c)
    \/ CancelUpdate(c)

WorkerStep(w) ==
    \/ WorkerPick(w)
    \/ WSetRunning(w)
    \/ WProgress(w)
    \/ WMilestone(w)
    \/ WStageFail(w)
    \/ WCleanup(w)
    \/ WEndRead(w)
    \/ WEndWrite(w)
    \/ WReturn(w)
    \/ WThrow(w)

QueueStep == \E j \in JobIds : Promote(j)

\* no task record exists and no create is on its way to one
NoTaskYet == FreeTasks = TaskIds /\ Creating = {}

\* the lifecycle of one task: one create is accepted, and then retry,
\* cancel, the workers and the queue act on its record
Next ==
    \/ \E c \in Callers, ty \in BuildTypes : NoTaskYet /\ CreateCheck(c, ty)
    \/ \E c \in Callers : CreateStep(c)
    \/ \E c \in Callers : RetryStep(c)
    \/ \E c \in Callers : CancelStep(c)
    \/ \E w \in Workers : WorkerStep(w)
    \/ QueueStep

Spec == Init /\ [][Next]_vars

\* the same lifecycle with the clock running
NextClock == Next \/ Tick

SpecClock == Init /\ [][NextClock]_vars

\* the same lifecycle with a pool of workers on the queue
NextPool ==
    \/ \E c \in Callers, ty \in BuildTypes : NoTaskYet /\ CreateCheck(c, ty)
    \/ \E c \in Callers : CreateStep(c)
    \/ \E c \in Callers : RetryStep(c)
    \/ \E c \in Callers : CancelStep(c)
    \/ \E w \in 1..PoolWorkers : WorkerStep(w)
    \/ QueueStep

SpecPool == Init /\ [][NextPool]_vars

\* create calls that overlap in time, for several tasks
NextOverlap ==
    \/ \E c \in 1..OverlapCallers, ty \in BuildTypes : CreateCheck(c, ty)
    \/ \E c \in 1..OverlapCallers : CreateStep(c)
    \/ \E w \in Workers : WorkerStep(w)
    \/ QueueStep

SpecOverlap == Init /\ [][NextOverlap]_vars

\* create calls that overlap in time, against a ceiling the queue can reach
NextCeiling ==
    \/ \E c \in 1..OverlapCallers, ty \in BuildTypes : CreateCheckAt(c, ty, QueueCeiling)
    \/ \E c \in 1..OverlapCallers : CreateStep(c)
    \/ \E w \in Workers : WorkerStep(w)
    \/ QueueStep

SpecCeiling == Init /\ [][NextCeiling]_vars

\* several processes attached to the queue, each running handleBuildMiniprogram
\* for one job at a time, and tasks of both build types
NextFleet ==
    \/ \E c \in Callers, ty \in BuildTypes : CreateCheck(c, ty)
    \/ \E c \in Callers : CreateStep(c)
    \/ \E w \in 1..PoolWorkers : WorkerStep(w)
    \/ QueueStep

SpecFleet == Init /\ [][NextFleet]_vars

\* appendLog calls that overlap in time on the tasks that create has made:
\* the calls of the handlers of two jobs of a task, or the calls that the
\* onProgressUpdate callback of uploadOrPreview starts without awaiting them
NextLog ==
    \/ \E c \in Callers, ty \in BuildTypes : CreateCheck(c, ty)
    \/ \E c \in Callers : CreateStep(c)
    \/ \E a \in Appenders : AppendStep(a)

SpecLog == Init /\ [][NextLog]_vars

\* the retention sweep over a table of old and recent records
NextSweep == CleanupExpiredTasks

SpecSweep == InitSweep /\ [][NextSweep]_vars

\* the steps of handleGitEvent and of the create that triggerBuild calls
HookStep ==
    \/ \E provider \in Providers, raw \in RawEvents, shape \in Shapes,
          branch \in Branches, merged \in BOOLEAN,
          hubSig \in {""} \cup Keys, token \in {""} \cup Keys :
          HReceive(provider, raw, shape, branch, merged, hubSig, token)
    \/ HFindMany
    \/ HTouch
    \/ HVersionRead
    \/ HVersionWrite
    \/ HCreate
    \/ CreateStep(HookCaller)
    \/ HReturn

\* webhook events for a miniprogram, one at a time, beside create calls of
\* the API
NextHook ==
    \/ HookStep
    \/ \E ty \in BuildTypes : CreateCheck(ApiCaller, ty)
    \/ CreateStep(ApiCaller)

\* the initial states of SpecHook: no task, and every configuration of the
\* miniprogram and of its webhook
InitHookSpec ==
    /\ InitCore
    /\ InitLog
    /\ InitHook
    /\ InitGit
    /\ InitSide

SpecHook == InitHookSpec /\ [][NextHook]_vars

\* submissions of builds, one after the other, while the jobs wait
SubmitStep ==
    \/ \E appExists \in BOOLEAN, authorized \in BOOLEAN, gitUrl \in BOOLEAN,
          authType \in CredentialKinds, secret \in BOOLEAN, ty \in BuildTypes :
          SFindOne(appExists, authorized, gitUrl, authType, secret, ty)
    \/ SFindUser
    \/ SCheck
    \/ CreateStep(SubmitCaller)
    \/ SReturn

NextSubmit == SubmitStep

SpecSubmit == Init /\ [][NextSubmit]_vars

\* getConfig, setConfig and deleteConfig calls on one key that overlap in
\* time
NextConfig ==
    \/ \E c \in ConfigCallers : ConfigStep(c)
    \/ ConfigExpire

SpecConfig == Init /\ [][NextConfig]_vars

\* notifications sent, for the tasks that create has made and otherwise,
\* and retried
NextNotify ==
    \/ NotifyStep
    \/ \E c \in Callers, ty \in BuildTypes : CreateCheck(c, ty)
    \/ \E c \in Callers : CreateStep(c)

SpecNotify == Init /\ [][NextNotify]_vars

\* the clients of the gateway
NextSockets == \E s \in Sockets : GatewayStep(s)

SpecSockets == Init /\ [][NextSockets]_vars

\* the socket that listens in SpecGateway
Listener == 1

\* one client of the gateway beside a task that is created and built
NextGateway ==
    \/ GatewayStep(Listener)
    \/ \E c \in Callers, ty \in BuildTypes : NoTaskYet /\ CreateCheck(c, ty)
    \/ \E c \in Callers : CreateStep(c)
    \/ \E w \in Workers : WorkerStep(w)
    \/ QueueStep

SpecGateway == Init /\ [][NextGateway]_vars

\* getRepositoryBranches for every credential, URL and answer of the remote
NextGit == GitStep

SpecGit == Init /\ [][NextGit]_vars

\* ------------------------------------------------------------- properties
Existing == {t \in TaskIds : task[t].exists}

\* C1: for each (app, build type) pair at most one task record is PENDING
\* or RUNNING, in every reachable state.
C1_AtMostOneActivePerPair ==
    \A ty \in BuildTypes : Cardinality(ActiveOfType(ty)) <= 1

AllowedEdges ==
    {<<"PENDING", "RUNNING">>, <<"RUNNING", "SUCCESS">>, <<"RUNNING", "FAILED">>,
     <<"PENDING", "CANCELLED">>, <<"RUNNING", "CANCELLED">>, <<"FAILED", "PENDING">>}

\* the step is the record update of a retry call on task t
IsRetryUpdate(t) ==
    \E c \in AllCallers : /\ call[c].op = "retry" /\ call[c].pc = "update"
                          /\ call[c].tid = t /\ call'[c].pc = "add"

\* C2: the status of a record changes only along PENDING->RUNNING,
\* RUNNING->SUCCESS, RUNNING->FAILED, PENDING->CANCELLED, RUNNING->CANCELLED
\* and FAILED->PENDING, the last one only in a retry call.
C2_StatusEdges ==
    [][\A t \in Existing :
          task'[t].status # task[t].status =>
             /\ <<task[t].status, task'[t].status>> \in AllowedEdges
             /\ task[t].status = "FAILED" => IsRetryUpdate(t)]_vars

\* a cancel call that read RUNNING and has returned successfully
CancelledRunning(c) ==
    /\ call[c].op = "cancel" /\ call[c].pc = "done"
    /\ call[c].res = "ok" /\ call[c].status = "RUNNING"

\* C3: once cancel has succeeded on a RUNNING task the record is CANCELLED
\* and stays CANCELLED, whatever the pipeline concludes.
C3_CancelledStays ==
    \A c \in AllCallers : CancelledRunning(c) => task[call[c].tid].status = "CANCELLED"

\* the step is the status check of a cancel call by c on task t
IsCancelCheck(c, t) ==
    /\ Free(c) /\ call'[c] # call[c]
    /\ call'[c].op = "cancel" /\ call'[c].tid = t
    /\ call'[c].pc \in {"done", "getJobs"}

\* a job of task t that a worker can still pick up
Pickable(t) ==
    {j \in JobIds : job[j].taskId = t /\ job[j].state \in {"waiting", "delayed"}}

\* C4: cancel on a SUCCESS, FAILED or CANCELLED task is rejected and changes
\* neither the record nor the queue; a cancel that succeeded on a PENDING or
\* RUNNING task leaves the record CANCELLED at its return and no job of the
\* task in the queue for a worker to pick up.
C4_CancelEffect ==
    [][\A c \in AllCallers :
          /\ \A t \in Existing :
                (IsCancelCheck(c, t) /\ task[t].status \notin {"PENDING", "RUNNING"}) =>
                   /\ call'[c].pc = "done" /\ call'[c].res = "InvalidState"
                   /\ UNCHANGED <<task, job, waitq>>
          /\ (call[c].op = "cancel" /\ call[c].pc = "update" /\ call'[c] # call[c]) =>
                /\ call'[c].res = "ok"
                /\ task'[call[c].tid].status = "CANCELLED"
                /\ Pickable(call[c].tid)' = {}]_vars

\* the step is the check of a retry call by c on task t
IsRetryCheck(c, t) ==
    /\ Free(c) /\ call'[c] # call[c]
    /\ call'[c].op = "retry" /\ call'[c].tid = t

\* the record as retry resets it, with the retryCount the call has read
ResetRecord(r, rc) ==
    [r EXCEPT !.status = "PENDING", !.retryCount = rc + 1, !.progress = 0,
              !.startTime = Null, !.endTime = Null, !.duration = Null,
              !.errorMessage = Null]

\* C5: retry is rejected, changing neither the record nor the queue, when
\* the status is not FAILED or retryCount is already 3; otherwise it keeps
\* the task id, sets PENDING, writes the retryCount it read plus 1, progress
\* 0, clears startTime, endTime, duration and errorMessage, and adds one job
\* for the task; retryCount never exceeds 3.
C5_Retry ==
    [][/\ \A c \in AllCallers :
             /\ \A t \in Existing :
                   IsRetryCheck(c, t) =>
                      /\ UNCHANGED <<task, job, waitq>>
                      /\ IF task[t].status # "FAILED" \/ task[t].retryCount >= MaxRetry
                         THEN /\ call'[c].pc = "done"
                              /\ call'[c].res \in {"InvalidState", "RetryLimit"}
                         ELSE /\ call'[c].pc = "update"
                              /\ call'[c].rc = task[t].retryCount
             /\ (call[c].op = "retry" /\ call[c].pc = "update" /\ call'[c] # call[c]) =>
                   /\ call'[c].op = "retry" /\ call'[c].pc = "add"
                   /\ call'[c].tid = call[c].tid
                   /\ task' = [task EXCEPT ![call[c].tid] = ResetRecord(@, call[c].rc)]
                   /\ UNCHANGED <<job, waitq>>
             /\ (call[c].op = "retry" /\ call[c].pc = "add" /\ call'[c] # call[c]) =>
                   /\ UNCHANGED task
                   /\ \E j \in JobIds \ LiveJobs :
                         /\ LiveJobs' = LiveJobs \cup {j}
                         /\ job' = [job EXCEPT ![j] =
                               [state |-> "waiting", taskId |-> call[c].tid,
                                attempts |-> RetryAttempts, attemptsMade |-> 0]]
                         /\ waitq' = Append(waitq, j)
                   /\ call'[c].pc = "done" /\ call'[c].res = "ok"
       /\ \A t \in TaskIds : task'[t].retryCount <= MaxRetry]_vars

\* a fourth retry is rejected after three retries of the task were accepted
C5_RetryWitness ==
    \E c \in AllCallers :
       /\ call[c].op = "retry" /\ call[c].pc = "done" /\ call[c].res = "RetryLimit"
       /\ task[call[c].tid].retryCount = MaxRetry
       /\ task[call[c].tid].status = "FAILED"

\* the worker is inside BuildService.build, which works in the directory
\* path.join(workspaceDir, taskId)
InPipeline(w) == wk[w].pc = "build"

\* C6: at any instant at most one worker executes the pipeline for a given
\* task id, so at most one run uses the workspace directory of that task.
C6_OneWorkerPerTask ==
    \A v, w \in AllWorkers :
       (v # w /\ InPipeline(v) /\ InPipeline(w)) => TaskOf(v) # TaskOf(w)

\* a job added by create that still has delivery attempts left: it waits
\* for its next attempt, or is in an attempt that is not its last one
HasAttemptsLeft(j) ==
    /\ job[j].attempts = CreateAttempts
    /\ \/ job[j].state \in {"waiting", "delayed"}
       \/ job[j].state = "active" /\ job[j].attemptsMade + 1 < job[j].attempts

\* C7: while the job that create added still has delivery attempts left,
\* the task record is not FAILED.
C7_RedeliveryInvisible ==
    \A j \in JobIds : HasAttemptsLeft(j) => task[job[j].taskId].status # "FAILED"

\* C8: after a stage failure the pipeline is not run again for the task
\* unless retry is called: no worker processes a job that has already
\* failed an attempt (a job added by retry has made no attempt).
C8_NoAutomaticRerun ==
    \A w \in AllWorkers : wk[w].pc # "idle" => job[wk[w].jid].attemptsMade = 0

\* C9: when startTime and endTime are both set, duration is the whole
\* seconds between them; duration is unset while the status is PENDING,
\* RUNNING or CANCELLED.
C9_Duration ==
    \A t \in Existing :
       /\ (IsSet(task[t].startTime) /\ IsSet(task[t].endTime)) =>
             /\ IsSet(task[t].duration)
             /\ Val(task[t].duration) = Duration(Val(task[t].endTime), Val(task[t].startTime))
       /\ task[t].status \in {"PENDING", "RUNNING", "CANCELLED"} => ~IsSet(task[t].duration)

\* C10: the progress values written to a record while it is RUNNING never
\* decrease, and every value lies in 0..100.
C10_ProgressMonotone ==
    [][\A t \in Existing :
          /\ task'[t].progress \in 0..100
          /\ (task[t].status = "RUNNING" /\ task'[t].status = "RUNNING") =>
                task'[t].progress >= task[t].progress]_vars

\* the step is a create call by c passing its checks
IsCreateAccept(c) ==
    /\ Free(c) /\ call'[c] # call[c]
    /\ call'[c].op = "create" /\ call'[c].pc = "insert"

\* C11: create accepts a job only when the number of queued plus active
\* jobs is below the ceiling, and the number of queued plus active jobs
\* never exceeds the ceiling, also when create calls overlap.
C11_QueueCeiling ==
    [][/\ \A c \in AllCallers :
             IsCreateAccept(c) => Cardinality(LiveJobs) < QueueCeiling
       /\ Cardinality(LiveJobs') <= QueueCeiling]_vars

\* the workers that are executing a job
Executing == {w \in AllWorkers : wk[w].pc # "idle"}

\* C12: at any instant at most N jobs are being executed and at most N
\* records are RUNNING, N being the configured worker concurrency.
C12_AtMostNRunning ==
    /\ Cardinality(Executing) <= ConfiguredBuilds
    /\ Cardinality({t \in Existing : task[t].status = "RUNNING"}) <= ConfiguredBuilds

\* the step is the final updateStatus write of worker w
IsEndWrite(w) == wk[w].pc = "endWrite" /\ wk'[w].pc = "endDone"

\* the step is worker w leaving the catch of build, after its fs.remove
IsCleanup(w) == wk[w].pc = "catch" /\ wk'[w].pc # "catch"

\* the final write of the handler records the outcome the pipeline ended with
WritesOutcome(w) ==
    IsEndWrite(w) =>
       /\ task'[TaskOf(w)].status = wk[w].out
       /\ wk[w].out = "FAILED" => task'[TaskOf(w)].errorMessage = Some(wk[w].err)

C14_CleanupNeverDecides ==
    [][\A w \in AllWorkers :
          /\ IsCleanup(w) =>
                IF wk[w].failed = CleanupStage
                THEN wk'[w].out = "SUCCESS"
                ELSE wk'[w].out = "FAILED" /\ wk'[w].err = wk[w].err
          /\ WritesOutcome(w)]_vars

\* the lines whose appendLog call has returned
Completed == {n \in 1..Len(issued) : \A a \in Appenders : ap[a].pc = "update" => ap[a].line # n}

Occurrences(q, x) == Cardinality({i \in 1..Len(q) : q[i] = x})

\* C15: the log is append-only and each append is atomic: the log holds
\* every line of a completed appendLog call exactly once, also when calls
\* overlap, and a line once present is never removed or overwritten.
C15_AppendAtomic ==
    [][/\ \A n \in Completed' : Occurrences(buildLog'[issued'[n]], n) = 1
       /\ \A t \in TaskIds :
             /\ Len(buildLog'[t]) >= Len(buildLog[t])
             /\ SubSeq(buildLog'[t], 1, Len(buildLog[t])) = buildLog[t]]_vars

\* the time from which record r has been terminal, where the record has it
TerminalSince(r) == IF IsSet(r.endTime) THEN Val(r.endTime) ELSE r.createTime

\* C16: the sweep deletes the SUCCESS, FAILED and CANCELLED tasks older than
\* 30 days and nothing else, never a PENDING or RUNNING task, and a task is
\* deleted only once it has been terminal for 30 days.
C16_RetentionSweep ==
    [][\A t \in Existing :
          /\ (task[t].status \in Terminal /\ task[t].createTime < ExpiredDate
                /\ TerminalSince(task[t]) <= ExpiredDate) => ~task'[t].exists
          /\ ~task'[t].exists =>
                /\ task[t].status \in Terminal
                /\ task[t].createTime < ExpiredDate
                /\ TerminalSince(task[t]) <= ExpiredDate]_vars

\* the decision of handleGitEvent on event e for miniprogram mp: automatic
\* builds are enabled, the branch of the event is the configured branch
\* (master when none is set), and the event is a push or a merged pull request
MayTrigger(e, mp) ==
    /\ mp.config /\ mp.autoBuild
    /\ e.branch = (IF mp.gitBranch # "" THEN mp.gitBranch ELSE "master")
    /\ \/ e.eventType = "push"
       \/ e.eventType = "pull_request" /\ e.merged

\* handleGitEvent has answered triggered = false with a reason, without error
NotTriggered(r) ==
    /\ r.pc = "done" /\ ~r.triggered /\ r.message # "" /\ r.error = "none"

IsHookReturn == req.pc = "create" /\ req'.pc = "done"

\* the task that handleGitEvent answers with: a PREVIEW task that is PENDING
\* with a job waiting in the queue
TriggeredTask(r) ==
    /\ r.triggered /\ r.error = "none"
    /\ r.taskId \in TaskIds
    /\ task[r.taskId].exists /\ task[r.taskId].type = "PREVIEW"
    /\ task[r.taskId].status = "PENDING"
    /\ \E j \in JobIds : job[j].taskId = r.taskId /\ job[j].state = "waiting"

Verifies(secret, hubSig, token) == Hmac(hubSig) = Hmac(secret) \/ token = secret

\* C19: when the webhook has a secret, the signature is verified before the
\* payload is translated, and a request whose signature does not verify
\* against the secret is rejected with an error, makes no task and does not
\* update lastTrigger, so that a task is made only for a request whose
\* signature verifies.
C19_SignatureFirst ==
    [][(/\ req.pc = "findMany" /\ req'.pc # "findMany"
        /\ webhook.status = "ACTIVE" /\ webhook.secret # ""
        /\ ~Verifies(webhook.secret, req.hubSig, req.token)) =>
           /\ req'.pc = "done" /\ req'.error = "SignatureInvalid"
           /\ UNCHANGED <<task, job, waitq, webhook>>]_vars

RemoteOps == {"addRemote", "listRemote", "symbolic-ref"}

\* C20: when the secret that the auth type needs is missing,
\* getRepositoryBranches fails with an error classified as invalid
\* credentials, and no operation on the remote repository is attempted
\* before that failure.
C20_MissingSecret ==
    (/\ gitop.pc = "done" /\ gitop.urlOk /\ gitop.isValid
     /\ MissingSecret(gitop.credential)) =>
        /\ ~gitop.success
        /\ gitop.error.type = "INVALID_CREDENTIALS"
        /\ \A i \in 1..Len(gitop.ops) : gitop.ops[i] \notin RemoteOps

\* C30: a webhook event changes the stored version of the app only if it
\* creates a build task: when handleGitEvent ends without a created task,
\* the version is the one the app had before the event (0 before the first
\* event).
C30_VersionOnlyWithTask ==
    (req.pc = "done" /\ req.n = 1 /\ ~req.triggered) => app.version = 0

\* the build config of a submission cannot be cloned from: the repository
\* URL is missing, or a field of the credential is
BadBuildInput(a) ==
    \/ CloneRepositoryError(a.gitUrl, a.authType, a.secret) # "none"
    \/ (a.authType \in {"HTTPS", "TOKEN"} /\ ~a.secret)

\* C24: input errors (bad repository URL, missing credential field, queue
\* full, duplicate active task, unauthorized caller, unknown app) are
\* rejected by create: the call fails, and it has created no task record
\* and added no job.
C24_InputErrorsRejected ==
    sub.pc = "done" =>
        /\ (~sub.appExists \/ ~sub.authorized \/ BadBuildInput(sub)) => sub.res # "ok"
        /\ sub.res # "ok" =>
              /\ sub.tid = 0
              /\ Cardinality({t \in TaskIds : task[t].exists}) < sub.n
              /\ Cardinality(LiveJobs) < sub.n

\* C26: the temporary artifacts of getRepositoryBranches are scoped to the
\* operation: when the call has returned, successfully or not, its work
\* directory has been removed and no private-key file exists any more.
C26_TempScoped ==
    gitop.pc = "done" => (~gitop.workDir /\ ~gitop.keyFile)

\* C27: every task accepted by create or re-entered by retry gets to a
\* terminal status; in particular no state is reachable in which a task is
\* PENDING while the queue holds no job for it.
C27_PendingHasJob ==
    \A t \in TaskIds :
        (task[t].exists /\ task[t].status = "PENDING") =>
            \E j \in LiveJobs : job[j].taskId = t

\* no setConfig or deleteConfig is in flight
WritesCompleted == \A c \in ConfigCallers : cc[c].op \in {"set", "delete"} => cc[c].pc = "done"

\* C28: the cache is coherent with the database: once the setConfig and
\* deleteConfig calls have completed, a getConfig that starts returns the
\* stored value: the cache has no entry, or the entry is the stored row.
C28_CacheCoherent ==
    WritesCompleted => (configCache = Null \/ configCache = configDb)

\* the rows of the notification table for a task
NotesOf(t) == {n \in NoteIds : notif[n].exists /\ notif[n].taskId = t}

\* C25: for every task that reaches SUCCESS or FAILED exactly one terminal
\* notification is emitted, and none for a task that is not terminal.
C25_OneTerminalEvent ==
    \A t \in TaskIds :
        /\ (task[t].exists /\ task[t].status \in {"SUCCESS", "FAILED"})
              => Cardinality(NotesOf(t)) = 1
        /\ (task[t].exists /\ task[t].status \in {"PENDING", "RUNNING"})
              => NotesOf(t) = {}

\* the rows of a notification: the one of its first send and those of the
\* times it was sent again
Sends(title) == {n \in NoteIds : notif[n].exists /\ notif[n].title = title}

\* C29: notification retry is bounded: a notification whose delivery keeps
\* failing is sent again at most 3 times in total, and the FAILED rows do
\* not grow with every call of retryFailedNotifications.
C29_RetryBounded ==
    \A title \in Titles :
        /\ Cardinality(Sends(title)) <= 1 + MaxNotificationRetry
        /\ Cardinality({n \in Sends(title) : notif[n].status = "FAILED"})
              <= MaxNotificationRetry

\* the step is a subscribe-task or unsubscribe-task message of socket s
IsRoomMessage(s) == \E t \in TaskIds : GwSubscribe(s, t) \/ GwUnsubscribe(s, t)

\* C21: a client whose token is missing, does not verify or resolves to no
\* user is disconnected, is never recorded as connected and never in a user
\* or task room; a subscribe-task or unsubscribe-task message of a socket
\* without authenticated identity gets an error event and changes no room.
C21_Unauthenticated ==
    [][\A s \in Sockets :
          /\ sock'[s].token # "valid" =>
                /\ ~sock'[s].recorded
                /\ ~sock'[s].userRoom
                /\ sock'[s].rooms = {}
                /\ sock'[s].pc = "done" => ~sock'[s].conn
          /\ (sock[s].userId = 0 /\ IsRoomMessage(s)) =>
                /\ sock'[s].reply = "error"
                /\ sock'[s].rooms = sock[s].rooms]_vars

\* C21 witness: a client whose token resolves to no user has sent
\* subscribe-task, has got the error event and has been disconnected.
C21_UnauthenticatedWitness ==
    \E s \in Sockets :
        /\ sock[s].token = "unknown user" /\ sock[s].pc = "done"
        /\ sock[s].reply = "error" /\ ~sock[s].conn

\* the workers that run BuildService.build for a task
Producers(t) ==
    {w \in AllWorkers : wk[w].pc \in {"build", "catch"} /\ TaskOf(w) = t}

\* C22: within one task the events are emitted in the order in which the
\* pipeline produced them, by a single producer, and an emission goes once
\* to the clients that are subscribed to the task at that moment and to
\* no others.
C22_SingleOrderedStream ==
    [][/\ \A t \in TaskIds : Cardinality(Producers(t)) <= 1
       /\ wire' # wire =>
             /\ wire'.to = Subscribers(wire'.task)
             /\ wire'.to # {}
             /\ \E w \in AllWorkers :
                   /\ wk[w].pc = "build" /\ TaskOf(w) = wire'.task
                   /\ wire'.events \in
                         {MilestoneEvents(wk[w].k),
                          <<BuildStatus("FAILED", 0), BuildLog("build failed")>>}]_vars

\* the build-status events of a sequence of events
StatusEvents(events) ==
    {events[i].status : i \in {k \in 1..Len(events) : events[k].kind = "build-status"}}

\* C23: every status transition of a task record is published as a
\* build-status event to the subscribers of the task, and every
\* build-status event carries the status the record has at that transition.
C23_TransitionsPublished ==
    [][/\ \A t \in TaskIds :
             (/\ task[t].exists /\ task'[t].status # task[t].status
              /\ Subscribers(t) # {}) =>
                /\ wire' # wire /\ wire'.task = t
                /\ task'[t].status \in StatusEvents(wire'.events)
       /\ wire' # wire =>
             \A st \in StatusEvents(wire'.events) :
                 /\ task'[wire'.task].status # task[wire'.task].status
                 /\ st = task'[wire'.task].status]_vars
====
